---- MODULE Spec2Model ----
(***************************************************************************)
(* ActronAir Neo data coordinator                                          *)
(* (custom_components/actronair_neo/coordinator.py).                       *)
(*                                                                         *)
(* Python values are represented as follows.                               *)
(*   str          a sequence of one-character strings, so that endswith,   *)
(*                split, upper and int() are real computations             *)
(*   None / {}    the records PyNone and EmptyDict                         *)
(*   d.get(k)     an optional field: << >> when the key is absent (the     *)
(*                result None) and <<v>> when it holds v                   *)
(*   JSON null    a key named in the payload's "nulls" set holds null      *)
(***************************************************************************)
EXTENDS Integers, Sequences, FiniteSets, TLC

VARIABLES
    enable_zone_control,  \* self.enable_zone_control
    last_data,            \* self.last_data: PyNone or a parsed state
    continuous_fan,       \* self._continuous_fan
    data,                 \* self.data of the update-coordinator base class
    api_healthy,          \* what api.is_api_healthy() answers
    call,                 \* the operation that just ran, with its arguments; "idle"
                          \* once its caller has taken the result
    result,               \* how it ended: returned value or raised exception
    trace                 \* the API client calls and refreshes it made, in order

vars == <<enable_zone_control, last_data, continuous_fan, data, api_healthy,
          call, result, trace>>

----------------------------------------------------------------------------
(* Strings *)

Str_CONT == <<"+", "C", "O", "N", "T">>
Str_LOW == <<"L", "O", "W">>
Str_MED == <<"M", "E", "D">>
Str_HIGH == <<"H", "I", "G", "H">>
Str_AUTO == <<"A", "U", "T", "O">>
Str_zone_ == <<"z", "o", "n", "e", "_">>
Str_Zone_sp == <<"Z", "o", "n", "e", " ">>

\* str.endswith
EndsWith(s, suffix) ==
    /\ Len(s) >= Len(suffix)
    /\ SubSeq(s, Len(s) - Len(suffix) + 1, Len(s)) = suffix

\* c in s
Contains(s, c) == \E i \in 1..Len(s) : s[i] = c

FirstIndex(s, c) == CHOOSE i \in 1..Len(s) : s[i] = c /\ \A j \in 1..(i-1) : s[j] # c

\* str.split(c): the list of pieces
RECURSIVE Split(_, _)
Split(s, c) ==
    IF ~Contains(s, c) THEN <<s>>
    ELSE <<SubSeq(s, 1, FirstIndex(s, c) - 1)>>
         \o Split(SubSeq(s, FirstIndex(s, c) + 1, Len(s)), c)

LowerLetters == <<"a", "b", "c", "d", "e", "f", "g", "h", "i", "j", "k", "l", "m",
                  "n", "o", "p", "q", "r", "s", "t", "u", "v", "w", "x", "y", "z">>
UpperLetters == <<"A", "B", "C", "D", "E", "F", "G", "H", "I", "J", "K", "L", "M",
                  "N", "O", "P", "Q", "R", "S", "T", "U", "V", "W", "X", "Y", "Z">>

UpperChar(c) ==
    IF \E i \in 1..Len(LowerLetters) : LowerLetters[i] = c
    THEN UpperLetters[CHOOSE i \in 1..Len(LowerLetters) : LowerLetters[i] = c]
    ELSE c

\* str.upper
Upper(s) == [i \in 1..Len(s) |-> UpperChar(s[i])]

Digits == <<"0", "1", "2", "3", "4", "5", "6", "7", "8", "9">>

IsDigit(c) == \E i \in 1..Len(Digits) : Digits[i] = c

DigitVal(c) == (CHOOSE i \in 1..Len(Digits) : Digits[i] = c) - 1

RECURSIVE DigitsVal(_)
DigitsVal(s) ==
    IF Len(s) = 0 THEN 0
    ELSE 10 * DigitsVal(SubSeq(s, 1, Len(s) - 1)) + DigitVal(s[Len(s)])

AllDigits(s) == Len(s) > 0 /\ \A i \in 1..Len(s) : IsDigit(s[i])

\* int(s) succeeds: an optional sign followed by decimal digits
IntParses(s) ==
    \/ AllDigits(s)
    \/ Len(s) > 1 /\ s[1] \in {"-", "+"} /\ AllDigits(Tail(s))

\* int(s), where it succeeds
IntOf(s) ==
    IF AllDigits(s) THEN DigitsVal(s)
    ELSE IF s[1] = "-" THEN 0 - DigitsVal(Tail(s))
    ELSE DigitsVal(Tail(s))

\* str(n) for n >= 0, as the f-strings format it
RECURSIVE IntStr(_)
IntStr(n) == IF n < 10 THEN <<Digits[n + 1]>> ELSE IntStr(n \div 10) \o <<Digits[(n % 10) + 1]>>

----------------------------------------------------------------------------
(* Python values *)

PyNone == [k |-> "None"]
EmptyDict == [k |-> "Empty"]

\* the truth value of a dict-or-None
Truthy(v) == v.k = "State"

\* d.get(key, default)
GetD(d, key, default) == IF key \in DOMAIN d THEN d[key] ELSE default

\* d.get(key): << >> stands for the result None, <<v>> for the value v
GetN(d, key) == IF key \in DOMAIN d THEN <<d[key]>> ELSE << >>

\* the empty dict {} as a section or entry of the payload
NoSection == [x \in {} |-> FALSE]

\* an entry of a JSON list that is null instead of an object
NullEntry == [null |-> TRUE]
IsNullEntry(e) == "null" \in DOMAIN e

----------------------------------------------------------------------------
(* Constants of the integration *)

MAX_ZONES == 8

----------------------------------------------------------------------------
(* _parse_data.  A raw payload is [json |-> the top-level dict, nulls |->  *)
(* the names of the keys that hold JSON null].                             *)

pd_last_known_state(raw) == GetD(raw.json, "lastKnownState", NoSection)
pd_user_aircon_settings(raw) == GetD(pd_last_known_state(raw), "UserAirconSettings", NoSection)
pd_master_info(raw) == GetD(pd_last_known_state(raw), "MasterInfo", NoSection)
pd_live_aircon(raw) == GetD(pd_last_known_state(raw), "LiveAircon", NoSection)
pd_aircon_system(raw) == GetD(pd_last_known_state(raw), "AirconSystem", NoSection)
pd_alerts(raw) == GetD(pd_last_known_state(raw), "Alerts", NoSection)
pd_fan_mode(raw) == GetD(pd_user_aircon_settings(raw), "FanMode", << >>)
pd_remote_zone_info(raw) == GetD(pd_last_known_state(raw), "RemoteZoneInfo", << >>)
pd_peripherals(raw) == GetD(pd_aircon_system(raw), "Peripherals", << >>)

\* is_continuous = fan_mode.endswith("+CONT")
is_continuous(fan_mode) == EndsWith(fan_mode, Str_CONT)

\* base_fan_mode that looks for '-' only when there is no '+'
base_fan_mode_plus_only(fan_mode) ==
    IF Contains(fan_mode, "+") THEN Split(fan_mode, "+")[1]
    ELSE IF Contains(fan_mode, "-") THEN Split(fan_mode, "-")[1]
    ELSE fan_mode

\* base_fan_mode: split at '+' when present, then split the result at '-' when present
base_fan_mode(fan_mode) ==
    LET b == IF Contains(fan_mode, "+") THEN Split(fan_mode, "+")[1] ELSE fan_mode
    IN  IF Contains(b, "-") THEN Split(b, "-")[1] ELSE b

\* the "main" dict
pd_main(raw) ==
    LET uas == pd_user_aircon_settings(raw)
        fan_mode == pd_fan_mode(raw)
    IN  [ is_on                 |-> GetD(uas, "isOn", FALSE),
          mode                  |-> GetD(uas, "Mode", "OFF"),
          fan_mode              |-> fan_mode,
          fan_continuous        |-> is_continuous(fan_mode),
          base_fan_mode         |-> base_fan_mode(fan_mode),
          temp_setpoint_cool    |-> GetN(uas, "TemperatureSetpoint_Cool_oC"),
          temp_setpoint_heat    |-> GetN(uas, "TemperatureSetpoint_Heat_oC"),
          indoor_temp           |-> GetN(pd_master_info(raw), "LiveTemp_oC"),
          indoor_humidity       |-> GetN(pd_master_info(raw), "LiveHumidity_pc"),
          compressor_state      |-> GetD(pd_live_aircon(raw), "CompressorMode", "OFF"),
          EnabledZones          |-> GetD(uas, "EnabledZones", << >>),
          away_mode             |-> GetD(uas, "AwayMode", FALSE),
          quiet_mode            |-> GetD(uas, "QuietMode", FALSE),
          model                 |-> GetN(pd_aircon_system(raw), "MasterWCModel"),
          serial_number         |-> GetN(pd_aircon_system(raw), "MasterSerial"),
          firmware_version      |-> GetN(pd_aircon_system(raw), "MasterWCFirmwareVersion"),
          filter_clean_required |-> GetD(pd_alerts(raw), "CleanFilter", FALSE),
          defrosting            |-> GetD(pd_alerts(raw), "Defrosting", FALSE) ]

\* zone_id = f"zone_{i+1}" for the 0-based index i
ZoneId(i) == Str_zone_ \o IntStr(i + 1)

\* the loop's condition without the limit on the index
pd_zone_included_no_cap(raw, i) ==
    GetD(pd_remote_zone_info(raw)[i + 1], "NV_Exists", FALSE)

\* the loop's condition: i < MAX_ZONES and zone.get("NV_Exists", False)
pd_zone_included(raw, i) ==
    /\ i < MAX_ZONES
    /\ GetD(pd_remote_zone_info(raw)[i + 1], "NV_Exists", FALSE)

\* the peripherals whose ZoneAssignment is [i + 1], by position in the list
pd_matches(raw, i) ==
    { j \in 1..Len(pd_peripherals(raw)) :
        GetD(pd_peripherals(raw)[j], "ZoneAssignment", << >>) = <<i + 1>> }

pd_first_match(raw, i) ==
    CHOOSE j \in pd_matches(raw, i) : \A m \in pd_matches(raw, i) : j <= m

\* pd_zone_data with a zone counted as enabled when it has no flag
pd_zone_data_default_enabled(raw, i) ==
    LET zone == pd_remote_zone_info(raw)[i + 1]
        ez == pd_main(raw).EnabledZones
        base == [ name       |-> GetD(zone, "NV_Title", Str_Zone_sp \o IntStr(i + 1)),
                  temp       |-> GetN(zone, "LiveTemp_oC"),
                  humidity   |-> GetN(zone, "LiveHumidity_pc"),
                  is_enabled |-> IF i < Len(ez) THEN ez[i + 1] ELSE TRUE ]
    IN  IF pd_matches(raw, i) = {} THEN base
        ELSE LET peripheral == pd_peripherals(raw)[pd_first_match(raw, i)]
             IN  [ battery_level    |-> GetN(peripheral, "RemainingBatteryCapacity_pc"),
                   signal_strength  |-> GetN(peripheral, "Signal_of3"),
                   peripheral_type  |-> GetN(peripheral, "DeviceType"),
                   last_connection  |-> GetN(peripheral, "LastConnectionTime"),
                   connection_state |-> GetN(peripheral, "ConnectionState") ] @@ base

\* zone_data for the zone at 0-based index i
pd_zone_data(raw, i) ==
    LET zone == pd_remote_zone_info(raw)[i + 1]
        ez == pd_main(raw).EnabledZones
        base == [ name       |-> GetD(zone, "NV_Title", Str_Zone_sp \o IntStr(i + 1)),
                  temp       |-> GetN(zone, "LiveTemp_oC"),
                  humidity   |-> GetN(zone, "LiveHumidity_pc"),
                  is_enabled |-> IF i < Len(ez) THEN ez[i + 1] ELSE FALSE ]
    IN  IF pd_matches(raw, i) = {} THEN base
        ELSE LET peripheral == pd_peripherals(raw)[pd_first_match(raw, i)]
             IN  [ battery_level    |-> GetN(peripheral, "RemainingBatteryCapacity_pc"),
                   signal_strength  |-> GetN(peripheral, "Signal_of3"),
                   peripheral_type  |-> GetN(peripheral, "DeviceType"),
                   last_connection  |-> GetN(peripheral, "LastConnectionTime"),
                   connection_state |-> GetN(peripheral, "ConnectionState") ] @@ base

pd_included(raw) ==
    { i \in 0..(Len(pd_remote_zone_info(raw)) - 1) : pd_zone_included(raw, i) }

\* the "zones" dict
pd_zones(raw) ==
    [ zid \in { ZoneId(i) : i \in pd_included(raw) } |->
        pd_zone_data(raw, CHOOSE i \in pd_included(raw) : ZoneId(i) = zid) ]

\* pd_raises_early when UserAirconSettings is read with a subscript, which
\* raises KeyError when the section is missing
pd_raises_early_subscript(raw) ==
    \/ "lastKnownState" \in raw.nulls
    \/ "UserAirconSettings" \in raw.nulls
    \/ "UserAirconSettings" \notin DOMAIN pd_last_known_state(raw)
    \/ "FanMode" \in raw.nulls
    \/ "MasterInfo" \in raw.nulls
    \/ "LiveAircon" \in raw.nulls
    \/ "AirconSystem" \in raw.nulls
    \/ "Alerts" \in raw.nulls

\* an exception raised before self._continuous_fan is assigned: a .get or
\* .endswith on a value that is null
pd_raises_early(raw) ==
    \/ "lastKnownState" \in raw.nulls
    \/ "UserAirconSettings" \in raw.nulls
    \/ "FanMode" \in raw.nulls
    \/ "MasterInfo" \in raw.nulls
    \/ "LiveAircon" \in raw.nulls
    \/ "AirconSystem" \in raw.nulls
    \/ "Alerts" \in raw.nulls

\* the scan of the peripherals for zone i meets a null entry before a match
pd_scan_raises(raw, i) ==
    \E j \in 1..Len(pd_peripherals(raw)) :
        /\ IsNullEntry(pd_peripherals(raw)[j])
        /\ \A m \in pd_matches(raw, i) : j < m

\* an exception raised in the zone loop, after self._continuous_fan is assigned
pd_raises_late(raw) ==
    \/ "RemoteZoneInfo" \in raw.nulls
    \/ \E i \in 0..(Len(pd_remote_zone_info(raw)) - 1) :
          /\ i < MAX_ZONES
          /\ \/ IsNullEntry(pd_remote_zone_info(raw)[i + 1])
             \/ /\ pd_zone_included(raw, i)
                /\ \/ "EnabledZones" \in raw.nulls
                   \/ "Peripherals" \in raw.nulls
                   \/ pd_scan_raises(raw, i)

\* _parse_data that assigns self._continuous_fan only once the zone loop is done
parse_data_flag_last(raw, cf) ==
    IF pd_raises_early(raw) \/ pd_raises_late(raw)
    THEN [raised |-> TRUE, exc |-> "UpdateFailed", continuous_fan |-> cf]
    ELSE [raised |-> FALSE,
          value |-> [k |-> "State", raw_data |-> raw, main |-> pd_main(raw),
                     zones |-> pd_zones(raw)],
          continuous_fan |-> is_continuous(pd_fan_mode(raw))]

\* _parse_data(data) with self._continuous_fan = cf on entry: the parsed state
\* or the UpdateFailed it raises, and self._continuous_fan on exit
_parse_data(raw, cf) ==
    IF pd_raises_early(raw)
    THEN [raised |-> TRUE, exc |-> "UpdateFailed", continuous_fan |-> cf]
    ELSE IF pd_raises_late(raw)
    THEN [raised |-> TRUE, exc |-> "UpdateFailed",
          continuous_fan |-> is_continuous(pd_fan_mode(raw))]
    ELSE [raised |-> FALSE,
          value |-> [k |-> "State", raw_data |-> raw, main |-> pd_main(raw),
                     zones |-> pd_zones(raw)],
          continuous_fan |-> is_continuous(pd_fan_mode(raw))]

----------------------------------------------------------------------------
(* The vendor's status payloads the model draws from *)

\* zones listed in RemoteZoneInfo by the ordinary payloads
ZoneCount == 2

Str_Living == <<"L", "i", "v", "i", "n", "g">>

UserSettings(fan_mode, enabled_zones) ==
    [ isOn |-> TRUE, Mode |-> "COOL", FanMode |-> fan_mode,
      TemperatureSetpoint_Cool_oC |-> 24, TemperatureSetpoint_Heat_oC |-> 20,
      EnabledZones |-> enabled_zones, AwayMode |-> FALSE, QuietMode |-> TRUE ]

\* the zone at 1-based position n: the first carries a title, the others none
ZoneInfo(n) ==
    IF n = 1
    THEN [NV_Exists |-> TRUE, NV_Title |-> Str_Living, LiveTemp_oC |-> 22, LiveHumidity_pc |-> 50]
    ELSE [NV_Exists |-> TRUE, LiveTemp_oC |-> 20 + n]

Sensor(n) ==
    [ ZoneAssignment |-> <<n>>, RemainingBatteryCapacity_pc |-> 80, Signal_of3 |-> 2,
      DeviceType |-> "Zone Sensor", LastConnectionTime |-> "2024-01-01T00:00:00",
      ConnectionState |-> "Connected" ]

System(peripherals) ==
    [ MasterWCModel |-> "NEO", MasterSerial |-> "SN1", MasterWCFirmwareVersion |-> "1.0",
      Peripherals |-> peripherals ]

\* a complete payload with the given fan mode, enabled flags and zone list
Status(fan_mode, enabled_zones, zone_info, nulls) ==
    [ json |->
        [ lastKnownState |->
            [ UserAirconSettings |-> UserSettings(fan_mode, enabled_zones),
              MasterInfo |-> [LiveTemp_oC |-> 23, LiveHumidity_pc |-> 45],
              LiveAircon |-> [CompressorMode |-> "COOL"],
              AirconSystem |-> System(<<[DeviceType |-> "Hub"], Sensor(1), Sensor(1)>>),
              Alerts |-> [CleanFilter |-> TRUE, Defrosting |-> FALSE],
              RemoteZoneInfo |-> zone_info ] ],
      nulls |-> nulls ]

AllZones == [n \in 1..ZoneCount |-> ZoneInfo(n)]

\* every zone enabled, every zone but the first enabled, no flag for the last zone
AllEnabled == [n \in 1..ZoneCount |-> TRUE]
FirstDisabled == [n \in 1..ZoneCount |-> n # 1]
ShortEnabled == [n \in 1..(ZoneCount - 1) |-> TRUE]

WellFormed ==
    { Status(Str_LOW, AllEnabled, AllZones, {}),
      Status(Str_LOW \o Str_CONT, AllEnabled, AllZones, {}),
      Status(Str_MED \o <<"-", "X">> \o Str_CONT, FirstDisabled, AllZones, {}),
      Status(Str_AUTO \o Str_CONT, ShortEnabled, AllZones, {}),
      \* one zone more than MAX_ZONES, the second marked as not existing
      Status(Str_HIGH, AllEnabled,
             [n \in 1..(MAX_ZONES + 1) |->
                 IF n = 2 THEN [NV_Exists |-> FALSE] ELSE ZoneInfo(n)], {}) }

\* payloads that lack optional sections
Partial ==
    { [json |-> NoSection, nulls |-> {}],
      [json |-> [lastKnownState |-> NoSection], nulls |-> {}],
      [json |-> [lastKnownState |-> [RemoteZoneInfo |-> AllZones],
                 AirconSystem |-> System(<<Sensor(1)>>)], nulls |-> {}] }

\* payloads with a JSON null where an object, a string or a list is expected;
\* one whose EnabledZones or Peripherals is null lists an existing zone
Malformed ==
    { Status(Str_LOW \o Str_CONT, AllEnabled, AllZones, {"lastKnownState"}),
      Status(Str_LOW \o Str_CONT, AllEnabled, AllZones, {"FanMode"}),
      Status(Str_LOW \o Str_CONT, AllEnabled, AllZones, {"RemoteZoneInfo"}),
      Status(Str_LOW, AllEnabled, <<ZoneInfo(1), NullEntry>>, {}) }

Payloads == WellFormed \cup Partial \cup Malformed

----------------------------------------------------------------------------
(* The API client (api.py): what its calls answer *)

\* get_ac_status returns a payload or raises
StatusOutcomes ==
    { [r |-> "ok", payload |-> p] : p \in Payloads }
    \cup { [r |-> "AuthenticationError"], [r |-> "ApiError"], [r |-> "Exception"] }

\* send_command, set_fan_mode, set_away_mode, set_quiet_mode return or raise
SendOutcomes == {"ok", "ApiError"}

\* create_command(kind, **params)
create_command(kind, params) == [kind |-> kind, params |-> params]

----------------------------------------------------------------------------
(* _async_update_data *)

Returned(value, ld, cf, events) ==
    [kind |-> "return", value |-> value, last_data |-> ld, continuous_fan |-> cf,
     events |-> events]

Raised(exc, ld, cf, events) ==
    [kind |-> "raise", exc |-> exc, last_data |-> ld, continuous_fan |-> cf,
     events |-> events]

\* CachedOrUpdateFailed without the fallback to the cached data
always_update_failed(ld, cf, events) == Raised("UpdateFailed", ld, cf, events)

\* the handlers of ApiError and of Exception: the cached data, or UpdateFailed
CachedOrUpdateFailed(ld, cf, events) ==
    IF Truthy(ld) THEN Returned(ld, ld, cf, events)
    ELSE Raised("UpdateFailed", ld, cf, events)

\* StoreParsed with the UpdateFailed of _parse_data not caught
store_parsed_uncaught(parsed, ld, events) ==
    IF ~parsed.raised
    THEN Returned(parsed.value, parsed.value, parsed.continuous_fan,
                  Append(events, [e |-> "_parse_data", raised |-> FALSE]))
    ELSE Raised("UpdateFailed", ld, parsed.continuous_fan,
                  Append(events, [e |-> "_parse_data", raised |-> TRUE]))

\* parsed_data = self._parse_data(status); self.last_data = parsed_data; return
\* parsed_data: with the UpdateFailed of _parse_data caught by "except Exception"
StoreParsed(parsed, ld, events) ==
    IF ~parsed.raised
    THEN Returned(parsed.value, parsed.value, parsed.continuous_fan,
                  Append(events, [e |-> "_parse_data", raised |-> FALSE]))
    ELSE CachedOrUpdateFailed(ld, parsed.continuous_fan,
                  Append(events, [e |-> "_parse_data", raised |-> TRUE]))

\* FetchAndParse with AuthenticationError handled like any other ApiError
auth_error_masked(ld, cf, status, events) ==
    IF status.r = "ok" THEN StoreParsed(_parse_data(status.payload, cf), ld, events)
    ELSE CachedOrUpdateFailed(ld, cf, events)

\* status = await self.api.get_ac_status(self.device_id) and what follows it
FetchAndParse(ld, cf, status, events) ==
    IF status.r = "ok" THEN StoreParsed(_parse_data(status.payload, cf), ld, events)
    ELSE IF status.r = "AuthenticationError"
    THEN Raised("ConfigEntryAuthFailed", ld, cf, events)
    ELSE CachedOrUpdateFailed(ld, cf, events)

\* _async_update_data without the is_api_healthy short-circuit
update_ignoring_health(ld, cf, healthy, status) ==
    FetchAndParse(ld, cf, status,
                  <<[e |-> "is_api_healthy", r |-> healthy], [e |-> "get_ac_status"] @@ status>>)

\* _async_update_data that serves the cached data whenever there is some
update_cache_first(ld, cf, healthy, status) ==
    IF ~healthy \/ Truthy(ld)
    THEN Returned(IF Truthy(ld) THEN ld ELSE EmptyDict, ld, cf,
                  <<[e |-> "is_api_healthy", r |-> healthy]>>)
    ELSE FetchAndParse(ld, cf, status,
                  <<[e |-> "is_api_healthy", r |-> TRUE], [e |-> "get_ac_status"] @@ status>>)

\* _async_update_data with self.last_data = ld and self._continuous_fan = cf,
\* when is_api_healthy() answers healthy and get_ac_status ends as status
_async_update_data(ld, cf, healthy, status) ==
    IF ~healthy
    THEN Returned(IF Truthy(ld) THEN ld ELSE EmptyDict, ld, cf,
                  <<[e |-> "is_api_healthy", r |-> FALSE]>>)
    ELSE FetchAndParse(ld, cf, status,
                  <<[e |-> "is_api_healthy", r |-> TRUE], [e |-> "get_ac_status"] @@ status>>)

----------------------------------------------------------------------------
(* The update-coordinator base class *)

\* self.data after _async_update_data ended as u: what it returned, or the
\* old data when it raised (the base class logs the exception)
Refreshed(u, old_data) ==
    [ last_data |-> u.last_data,
      continuous_fan |-> u.continuous_fan,
      data |-> IF u.kind = "return" THEN u.value ELSE old_data,
      update |-> u,
      events |-> u.events ]

\* async_refresh / async_request_refresh
async_refresh(st, status) ==
    Refreshed(_async_update_data(st.last_data, st.continuous_fan, st.api_healthy, status),
              st.data)

----------------------------------------------------------------------------
(* Command methods.  Each takes the coordinator's state st, its arguments, *)
(* how the API client's send ends (sent) and how get_ac_status ends in the *)
(* refresh that follows (status); each yields the state it leaves, its     *)
(* result and the calls it made.                                           *)

ReturnNone == [kind |-> "return", value |-> PyNone]
Raise(exc) == [kind |-> "raise", exc |-> exc]

\* the method ends here with st as the coordinator's state
Ends(st, res, events) ==
    [ last_data |-> st.last_data, continuous_fan |-> st.continuous_fan,
      data |-> st.data, result |-> res, trace |-> events ]

\* the method returns after the refresh r
Reconciled(r, events) ==
    [ last_data |-> r.last_data, continuous_fan |-> r.continuous_fan,
      data |-> r.data, result |-> ReturnNone, trace |-> events \o r.events ]

\* await self.async_request_refresh(), then the method returns
refresh_and_return(st, status, events) ==
    Reconciled(async_refresh(st, status), Append(events, [e |-> "async_request_refresh"]))

Created(command) == [e |-> "create_command", command |-> command]
Sent(command, sent) == [e |-> "send_command", command |-> command, r |-> sent]

\* await self.api.send_command(self.device_id, command)
\* await self.async_request_refresh()
\* inside try / except Exception: raise
send_and_refresh(st, command, sent, status) ==
    IF sent # "ok"
    THEN Ends(st, Raise(sent), <<Created(command), Sent(command, sent)>>)
    ELSE refresh_and_return(st, status, <<Created(command), Sent(command, sent)>>)

HVACMode_OFF == "off"

\* send_and_refresh without the refresh
send_only(st, command, sent) ==
    Ends(st, IF sent = "ok" THEN ReturnNone ELSE Raise(sent),
         <<Created(command), Sent(command, sent)>>)

\* set_hvac_mode without the refresh after the send
set_hvac_mode_no_refresh(st, hvac_mode, sent, status) ==
    send_only(st,
        IF hvac_mode = HVACMode_OFF
        THEN create_command("OFF", NoSection)
        ELSE create_command("CLIMATE_MODE", [mode |-> hvac_mode]),
        sent)

set_hvac_mode(st, hvac_mode, sent, status) ==
    send_and_refresh(st,
        IF hvac_mode = HVACMode_OFF
        THEN create_command("OFF", NoSection)
        ELSE create_command("CLIMATE_MODE", [mode |-> hvac_mode]),
        sent, status)

\* the send follows the refresh r
sent_after_refresh(r, command, sent) ==
    [ last_data |-> r.last_data, continuous_fan |-> r.continuous_fan, data |-> r.data,
      result |-> IF sent = "ok" THEN ReturnNone ELSE Raise(sent),
      trace |-> <<[e |-> "async_request_refresh"]>> \o r.events
                \o <<Created(command), Sent(command, sent)>> ]

\* set_temperature with the refresh before the send
set_temperature_refresh_first(st, temperature, is_cooling, sent, status) ==
    sent_after_refresh(async_refresh(st, status),
        create_command("SET_TEMP", [temp |-> temperature, is_cool |-> is_cooling]),
        sent)

set_temperature(st, temperature, is_cooling, sent, status) ==
    send_and_refresh(st,
        create_command("SET_TEMP", [temp |-> temperature, is_cool |-> is_cooling]),
        sent, status)

valid_modes == {Str_LOW, Str_MED, Str_HIGH, Str_AUTO}

\* set_fan_mode that updates self._continuous_fan before the send
set_fan_mode_flag_first(st, mode, continuous, sent, status) ==
    LET base_mode == IF Upper(mode) \in {Str_LOW, Str_MED, Str_HIGH, Str_AUTO}
                     THEN Upper(mode) ELSE Str_LOW
    IN  IF st.data.k = "None" THEN Ends(st, Raise("TypeError"), << >>)
        ELSE IF st.data.k = "Empty" THEN Ends(st, Raise("KeyError"), << >>)
        ELSE LET cont == IF continuous = << >>
                         THEN EndsWith(GetD(st.data.main, "fan_mode", << >>), Str_CONT)
                         ELSE continuous[1]
                 events == <<[e |-> "set_fan_mode", base_mode |-> base_mode,
                              continuous |-> cont, r |-> sent]>>
             IN  IF sent # "ok"
                 THEN Ends([st EXCEPT !.continuous_fan = cont], Raise(sent), events)
                 ELSE refresh_and_return([st EXCEPT !.continuous_fan = cont], status, events)

\* set_fan_mode that keeps the locally tracked flag instead of the observed fan mode
set_fan_mode_local_flag(st, mode, continuous, sent, status) ==
    LET base_mode == IF Upper(mode) \in {Str_LOW, Str_MED, Str_HIGH, Str_AUTO}
                     THEN Upper(mode) ELSE Str_LOW
    IN  IF st.data.k = "None" THEN Ends(st, Raise("TypeError"), << >>)
        ELSE IF st.data.k = "Empty" THEN Ends(st, Raise("KeyError"), << >>)
        ELSE LET cont == IF continuous = << >> THEN st.continuous_fan ELSE continuous[1]
                 events == <<[e |-> "set_fan_mode", base_mode |-> base_mode,
                              continuous |-> cont, r |-> sent]>>
             IN  IF sent # "ok"
                 THEN Ends(st, Raise(sent), events)
                 ELSE refresh_and_return([st EXCEPT !.continuous_fan = cont], status, events)

\* continuous is << >> for None, <<b>> for the flag b
set_fan_mode(st, mode, continuous, sent, status) ==
    LET base_mode == IF Upper(mode) \in valid_modes THEN Upper(mode) ELSE Str_LOW
    IN  IF st.data.k = "None" THEN Ends(st, Raise("TypeError"), << >>)
        ELSE IF st.data.k = "Empty" THEN Ends(st, Raise("KeyError"), << >>)
        ELSE LET cont == IF continuous = << >>
                         THEN EndsWith(GetD(st.data.main, "fan_mode", << >>), Str_CONT)
                         ELSE continuous[1]
                 events == <<[e |-> "set_fan_mode", base_mode |-> base_mode,
                              continuous |-> cont, r |-> sent]>>
             IN  IF sent # "ok"
                 THEN Ends(st, Raise(sent), events)
                 ELSE refresh_and_return([st EXCEPT !.continuous_fan = cont], status, events)

\* zone_index = int(zone_id.split('_')[1]) - 1: the exception it raises, or "" for none
zone_index_error(zone_id) ==
    IF Len(Split(zone_id, "_")) < 2 THEN "IndexError"
    ELSE IF ~IntParses(Split(zone_id, "_")[2]) THEN "ValueError"
    ELSE ""

zone_index_of(zone_id) == IntOf(Split(zone_id, "_")[2]) - 1

\* set_zone_temperature without the check that the zone is enabled
set_zone_temperature_any_zone(st, zone_id, temperature, temp_key, sent, status) ==
    IF ~st.enable_zone_control THEN Ends(st, Raise("ValueError"), << >>)
    ELSE IF ~Truthy(st.last_data) THEN Ends(st, Raise("ValueError"), << >>)
    ELSE IF zone_id \notin DOMAIN st.last_data.zones THEN Ends(st, Raise("ValueError"), << >>)
    ELSE send_and_refresh(st,
            create_command("SET_ZONE_TEMP",
                [zone |-> zone_index_of(zone_id), temp |-> temperature, temp_key |-> temp_key]),
            sent, status)

set_zone_temperature(st, zone_id, temperature, temp_key, sent, status) ==
    IF ~st.enable_zone_control THEN Ends(st, Raise("ValueError"), << >>)
    ELSE IF ~Truthy(st.last_data) THEN Ends(st, Raise("ValueError"), << >>)
    ELSE IF zone_id \notin DOMAIN st.last_data.zones THEN Ends(st, Raise("ValueError"), << >>)
    ELSE IF ~GetD(st.last_data.zones[zone_id], "is_enabled", FALSE)
    THEN Ends(st, Raise("ValueError"), << >>)
    ELSE IF zone_index_error(zone_id) # ""
    THEN Ends(st, Raise(zone_index_error(zone_id)), << >>)
    ELSE send_and_refresh(st,
            create_command("SET_ZONE_TEMP",
                [zone |-> zone_index_of(zone_id), temp |-> temperature, temp_key |-> temp_key]),
            sent, status)

\* set_zone_state whose bounds check admits the index len(EnabledZones)
set_zone_state_off_by_one(st, zone_id, enable, sent, status) ==
    IF "str" \in DOMAIN zone_id /\ zone_index_error(zone_id.str) # ""
    THEN Ends(st, Raise(zone_index_error(zone_id.str)), << >>)
    ELSE IF st.last_data.k = "None" THEN Ends(st, Raise("TypeError"), << >>)
    ELSE LET zone_index == IF "str" \in DOMAIN zone_id
                           THEN zone_index_of(zone_id.str) ELSE zone_id.int
             current_zone_status == st.last_data.main.EnabledZones
         IN  IF 0 <= zone_index /\ zone_index <= Len(current_zone_status)
             THEN send_and_refresh(st,
                     create_command("SET_ZONE_STATE",
                         [zones |-> [i \in 1..Len(current_zone_status) |->
                                        IF i = zone_index + 1 THEN enable
                                        ELSE current_zone_status[i]]]),
                     sent, status)
             ELSE Ends(st, Raise("ValueError"), << >>)

\* set_zone_state that sets the flag in self.last_data's own EnabledZones list
\* instead of a copy of it
set_zone_state_in_place(st, zone_id, enable, sent, status) ==
    IF "str" \in DOMAIN zone_id /\ zone_index_error(zone_id.str) # ""
    THEN Ends(st, Raise(zone_index_error(zone_id.str)), << >>)
    ELSE IF st.last_data.k = "None" THEN Ends(st, Raise("TypeError"), << >>)
    ELSE LET zone_index == IF "str" \in DOMAIN zone_id
                           THEN zone_index_of(zone_id.str) ELSE zone_id.int
             current_zone_status == st.last_data.main.EnabledZones
         IN  IF 0 <= zone_index /\ zone_index < Len(current_zone_status)
             THEN send_and_refresh(
                     [st EXCEPT !.last_data.main.EnabledZones[zone_index + 1] = enable],
                     create_command("SET_ZONE_STATE",
                         [zones |-> [current_zone_status EXCEPT ![zone_index + 1] = enable]]),
                     sent, status)
             ELSE Ends(st, Raise("ValueError"), << >>)

\* set_zone_state that subtracts 1 from a numeric index as well
set_zone_state_int_one_based(st, zone_id, enable, sent, status) ==
    IF "str" \in DOMAIN zone_id /\ zone_index_error(zone_id.str) # ""
    THEN Ends(st, Raise(zone_index_error(zone_id.str)), << >>)
    ELSE IF st.last_data.k = "None" THEN Ends(st, Raise("TypeError"), << >>)
    ELSE LET zone_index == IF "str" \in DOMAIN zone_id
                           THEN zone_index_of(zone_id.str) ELSE zone_id.int - 1
             current_zone_status == st.last_data.main.EnabledZones
         IN  IF 0 <= zone_index /\ zone_index < Len(current_zone_status)
             THEN send_and_refresh(st,
                     create_command("SET_ZONE_STATE",
                         [zones |-> [current_zone_status EXCEPT ![zone_index + 1] = enable]]),
                     sent, status)
             ELSE Ends(st, Raise("ValueError"), << >>)

\* zone_id is [str |-> a zone identifier] or [int |-> an index]
set_zone_state(st, zone_id, enable, sent, status) ==
    IF "str" \in DOMAIN zone_id /\ zone_index_error(zone_id.str) # ""
    THEN Ends(st, Raise(zone_index_error(zone_id.str)), << >>)
    ELSE IF st.last_data.k = "None" THEN Ends(st, Raise("TypeError"), << >>)
    ELSE LET zone_index == IF "str" \in DOMAIN zone_id
                           THEN zone_index_of(zone_id.str) ELSE zone_id.int
             current_zone_status == st.last_data.main.EnabledZones
         IN  IF 0 <= zone_index /\ zone_index < Len(current_zone_status)
             THEN send_and_refresh(st,
                     create_command("SET_ZONE_STATE",
                         [zones |-> [current_zone_status EXCEPT ![zone_index + 1] = enable]]),
                     sent, status)
             ELSE Ends(st, Raise("ValueError"), << >>)

set_climate_mode(st, mode, sent, status) ==
    send_and_refresh(st, create_command("CLIMATE_MODE", [mode |-> mode]), sent, status)

\* await self.api.set_away_mode(state); await self.async_request_refresh()
set_away_mode(st, state, sent, status) ==
    IF sent # "ok"
    THEN Ends(st, Raise(sent), <<[e |-> "set_away_mode", state |-> state, r |-> sent]>>)
    ELSE refresh_and_return(st, status, <<[e |-> "set_away_mode", state |-> state, r |-> sent]>>)

set_quiet_mode(st, state, sent, status) ==
    IF sent # "ok"
    THEN Ends(st, Raise(sent), <<[e |-> "set_quiet_mode", state |-> state, r |-> sent]>>)
    ELSE refresh_and_return(st, status, <<[e |-> "set_quiet_mode", state |-> state, r |-> sent]>>)

\* self.enable_zone_control = enable; await self.async_request_refresh()
set_enable_zone_control(st, enable, status) ==
    refresh_and_return(st, status, << >>)

\* the continuous_fan property setter: self._continuous_fan = value
continuous_fan_setter(st, value) ==
    Ends([st EXCEPT !.continuous_fan = value], ReturnNone, << >>)

----------------------------------------------------------------------------
(* Read accessors *)

\* self.data.get("raw_data", {}).get("AirconSystem", {}).get("Peripherals", []):
\* the sections are looked up at the top level of the raw payload
gzp_peripherals(d) ==
    IF d.k = "Empty" THEN << >>
    ELSE GetD(GetD(d.raw_data.json, "AirconSystem", NoSection), "Peripherals", << >>)

\* the peripherals whose ZoneAssignment is [zone_index + 1], by position
gzp_matches(d, zone_index) ==
    { j \in 1..Len(gzp_peripherals(d)) :
        /\ ~IsNullEntry(gzp_peripherals(d)[j])
        /\ GetD(gzp_peripherals(d)[j], "ZoneAssignment", << >>) = <<zone_index + 1>> }

\* an exception the except clause (KeyError, ValueError, IndexError) does not
\* catch, or "" for none: .get on None, iteration over None, .get on a null entry
gzp_uncaught(d, zone_index) ==
    IF d.k = "None" THEN "AttributeError"
    ELSE IF d.k = "Empty" THEN ""
    ELSE IF "AirconSystem" \in DOMAIN d.raw_data.json /\ "AirconSystem" \in d.raw_data.nulls
    THEN "AttributeError"
    ELSE IF /\ "AirconSystem" \in DOMAIN d.raw_data.json
            /\ "Peripherals" \in DOMAIN d.raw_data.json.AirconSystem
            /\ "Peripherals" \in d.raw_data.nulls
    THEN "TypeError"
    ELSE IF \E j \in 1..Len(gzp_peripherals(d)) :
               /\ IsNullEntry(gzp_peripherals(d)[j])
               /\ \A m \in gzp_matches(d, zone_index) : j < m
    THEN "AttributeError"
    ELSE ""

\* get_zone_peripheral(zone_id) with self.data = d: the first matching
\* peripheral, None, or the exception that escapes
get_zone_peripheral(d, zone_id) ==
    IF zone_index_error(zone_id) # "" THEN ReturnNone
    ELSE IF gzp_uncaught(d, zone_index_of(zone_id)) # ""
    THEN Raise(gzp_uncaught(d, zone_index_of(zone_id)))
    ELSE IF gzp_matches(d, zone_index_of(zone_id)) = {} THEN ReturnNone
    ELSE [kind |-> "return",
          value |-> gzp_peripherals(d)[CHOOSE j \in gzp_matches(d, zone_index_of(zone_id)) :
                        \A m \in gzp_matches(d, zone_index_of(zone_id)) : j <= m]]

\* return peripheral_data.get("LastConnectionTime") if peripheral_data else None;
\* the time is optional: << >> stands for the result None
glu_of(peripheral) ==
    IF peripheral.kind = "raise" THEN peripheral
    ELSE IF peripheral.value = PyNone \/ peripheral.value = NoSection
    THEN [kind |-> "return", value |-> << >>]
    ELSE [kind |-> "return", value |-> GetN(peripheral.value, "LastConnectionTime")]

\* get_zone_last_updated(zone_id) with self.data = d
get_zone_last_updated(d, zone_id) == glu_of(get_zone_peripheral(d, zone_id))

----------------------------------------------------------------------------
(* Arguments the host calls the methods with *)

HvacModeArgs == {"off", "cool"}
TemperatureArgs == {22}
FanModeArgs == {<<"h", "i", "g", "h">>, <<"M", "e", "d">>, <<"t", "u", "r", "b", "o">>}
ContinuousArgs == {<< >>, <<TRUE>>, <<FALSE>>}
ZoneIdArgs ==
    { ZoneId(i) : i \in (0 - 1)..ZoneCount }
    \cup { <<"z", "o", "n", "e">>, Str_zone_ \o <<"x">> }
ZoneStateArgs ==
    { [str |-> z] : z \in ZoneIdArgs } \cup { [int |-> i] : i \in (0 - 1)..ZoneCount }

----------------------------------------------------------------------------
(* State machine *)

State == [ enable_zone_control |-> enable_zone_control, last_data |-> last_data,
           continuous_fan |-> continuous_fan, data |-> data,
           api_healthy |-> api_healthy ]

\* no operation is in progress and none has left a result to look at
Idle == [name |-> "idle"]

Init ==
    /\ enable_zone_control \in BOOLEAN
    /\ last_data = PyNone
    /\ continuous_fan = FALSE
    /\ data = PyNone
    /\ api_healthy = TRUE
    /\ call = Idle
    /\ result = ReturnNone
    /\ trace = << >>

\* the API client's failure tracking changes its health flag
ApiHealthChanges ==
    /\ call = Idle
    /\ api_healthy' = ~api_healthy
    /\ UNCHANGED <<call, result, trace>>
    /\ UNCHANGED <<enable_zone_control, last_data, continuous_fan, data>>

\* what the caller of _async_update_data sees
Outcome(u) ==
    IF u.kind = "return" THEN [kind |-> "return", value |-> u.value]
    ELSE [kind |-> "raise", exc |-> u.exc]

RefreshRan(r) ==
    /\ last_data' = r.last_data
    /\ continuous_fan' = r.continuous_fan
    /\ data' = r.data
    /\ call' = [name |-> "_async_update_data"]
    /\ result' = Outcome(r.update)
    /\ trace' = r.update.events

\* the host's scheduler runs a refresh: result is what _async_update_data
\* returned or raised
Refresh ==
    /\ call = Idle
    /\ \E status \in StatusOutcomes : RefreshRan(async_refresh(State, status))
    /\ UNCHANGED <<enable_zone_control, api_healthy>>

\* a command method ran and left the outcome o
Ran(c, o) ==
    /\ call = Idle
    /\ last_data' = o.last_data
    /\ continuous_fan' = o.continuous_fan
    /\ data' = o.data
    /\ call' = c
    /\ result' = o.result
    /\ trace' = o.trace
    /\ UNCHANGED api_healthy

SetHvacMode ==
    \E hvac_mode \in HvacModeArgs, sent \in SendOutcomes, status \in StatusOutcomes :
        /\ Ran([name |-> "set_hvac_mode", hvac_mode |-> hvac_mode],
               set_hvac_mode(State, hvac_mode, sent, status))
        /\ UNCHANGED enable_zone_control

SetTemperature ==
    \E temperature \in TemperatureArgs, is_cooling \in BOOLEAN,
       sent \in SendOutcomes, status \in StatusOutcomes :
        /\ Ran([name |-> "set_temperature", temperature |-> temperature,
                is_cooling |-> is_cooling],
               set_temperature(State, temperature, is_cooling, sent, status))
        /\ UNCHANGED enable_zone_control

SetFanMode ==
    \E mode \in FanModeArgs, continuous \in ContinuousArgs,
       sent \in SendOutcomes, status \in StatusOutcomes :
        /\ Ran([name |-> "set_fan_mode", mode |-> mode, continuous |-> continuous],
               set_fan_mode(State, mode, continuous, sent, status))
        /\ UNCHANGED enable_zone_control

SetZoneTemperature ==
    \E zone_id \in ZoneIdArgs, temperature \in TemperatureArgs,
       sent \in SendOutcomes, status \in StatusOutcomes :
        /\ Ran([name |-> "set_zone_temperature", zone_id |-> zone_id,
                temperature |-> temperature],
               set_zone_temperature(State, zone_id, temperature,
                                    "TemperatureSetpoint_Cool_oC", sent, status))
        /\ UNCHANGED enable_zone_control

SetZoneState ==
    \E zone_id \in ZoneStateArgs, enable \in BOOLEAN,
       sent \in SendOutcomes, status \in StatusOutcomes :
        /\ Ran([name |-> "set_zone_state", zone_id |-> zone_id, enable |-> enable],
               set_zone_state(State, zone_id, enable, sent, status))
        /\ UNCHANGED enable_zone_control

SetClimateMode ==
    \E mode \in {"heat"}, sent \in SendOutcomes, status \in StatusOutcomes :
        /\ Ran([name |-> "set_climate_mode", mode |-> mode],
               set_climate_mode(State, mode, sent, status))
        /\ UNCHANGED enable_zone_control

SetAwayMode ==
    \E state \in BOOLEAN, sent \in SendOutcomes, status \in StatusOutcomes :
        /\ Ran([name |-> "set_away_mode", state |-> state],
               set_away_mode(State, state, sent, status))
        /\ UNCHANGED enable_zone_control

SetQuietMode ==
    \E state \in BOOLEAN, sent \in SendOutcomes, status \in StatusOutcomes :
        /\ Ran([name |-> "set_quiet_mode", state |-> state],
               set_quiet_mode(State, state, sent, status))
        /\ UNCHANGED enable_zone_control

SetEnableZoneControl ==
    \E enable \in BOOLEAN, status \in StatusOutcomes :
        /\ enable_zone_control' = enable
        /\ Ran([name |-> "set_enable_zone_control", enable |-> enable],
               set_enable_zone_control([State EXCEPT !.enable_zone_control = enable],
                                       enable, status))

SetContinuousFan ==
    \E value \in BOOLEAN :
        /\ Ran([name |-> "continuous_fan", value |-> value],
               continuous_fan_setter(State, value))
        /\ UNCHANGED enable_zone_control

GetZonePeripheral ==
    \E zone_id \in ZoneIdArgs :
        /\ Ran([name |-> "get_zone_peripheral", zone_id |-> zone_id],
               Ends(State, get_zone_peripheral(data, zone_id), << >>))
        /\ UNCHANGED enable_zone_control

GetZoneLastUpdated ==
    \E zone_id \in ZoneIdArgs :
        /\ Ran([name |-> "get_zone_last_updated", zone_id |-> zone_id],
               Ends(State, get_zone_last_updated(data, zone_id), << >>))
        /\ UNCHANGED enable_zone_control

\* the caller takes the result of the operation that ran
Return ==
    /\ call # Idle
    /\ call' = Idle
    /\ result' = ReturnNone
    /\ trace' = << >>
    /\ UNCHANGED <<enable_zone_control, last_data, continuous_fan, data, api_healthy>>

Next ==
    \/ Return
    \/ ApiHealthChanges
    \/ Refresh
    \/ SetHvacMode
    \/ SetTemperature
    \/ SetFanMode
    \/ SetZoneTemperature
    \/ SetZoneState
    \/ SetClimateMode
    \/ SetAwayMode
    \/ SetQuietMode
    \/ SetEnableZoneControl
    \/ SetContinuousFan
    \/ GetZonePeripheral
    \/ GetZoneLastUpdated

Spec == Init /\ [][Next]_vars

----------------------------------------------------------------------------
(* _parse_data on its own: a payload is drawn, then parsed *)

\* longest fan-mode string and longest zone list drawn
MaxFanLen == 3
MaxParseZones == 3

OptionalSections ==
    {"UserAirconSettings", "MasterInfo", "LiveAircon", "AirconSystem", "Alerts",
     "RemoteZoneInfo"}

CompleteState == Status(Str_LOW \o Str_CONT, AllEnabled, AllZones, {}).json.lastKnownState

\* the complete payload without the sections named in missing
Without(missing) ==
    [ json |-> [lastKnownState |->
                   [k \in (DOMAIN CompleteState) \ missing |-> CompleteState[k]]],
      nulls |-> {} ]

MissingSections == { Without(missing) : missing \in SUBSET OptionalSections }

FanAlphabet == {"+", "-", "L", "O"}

FanStrings == UNION { [1..n -> FanAlphabet] : n \in 0..MaxFanLen }

FanModes == { Status(f, AllEnabled, AllZones, {}) : f \in FanStrings }

\* zone lists in which each entry exists or not, with every list of enabled
\* flags that is not longer
ZoneLists ==
    UNION { [1..n -> BOOLEAN] : n \in 0..MaxParseZones }

ZoneEntries(exists) ==
    [n \in 1..Len(exists) |-> IF exists[n] THEN ZoneInfo(n) ELSE [NV_Exists |-> FALSE]]

ZoneLayouts ==
    { Status(Str_LOW, enabled, ZoneEntries(exists), {}) :
        exists \in ZoneLists,
        enabled \in UNION { [1..m -> BOOLEAN] : m \in 0..MaxParseZones } }

\* more zones than MAX_ZONES, all existing: every one enabled, or flags for
\* the first MAX_ZONES only
ManyZones ==
    { Status(Str_LOW, [n \in 1..m |-> TRUE], [n \in 1..(MAX_ZONES + 1) |-> ZoneInfo(n)], {}) :
        m \in {MAX_ZONES, MAX_ZONES + 1} }

ParseInputs ==
    MissingSections \cup FanModes \cup ZoneLayouts \cup ManyZones \cup Payloads

ParseInit ==
    /\ enable_zone_control \in BOOLEAN
    /\ last_data = PyNone
    /\ continuous_fan \in BOOLEAN
    /\ data = PyNone
    /\ api_healthy = TRUE
    /\ call \in { [name |-> "payload", raw |-> raw] : raw \in ParseInputs }
    /\ result = ReturnNone
    /\ trace = << >>

\* what the caller of _parse_data sees
ParseOutcome(parsed) ==
    IF parsed.raised THEN Raise(parsed.exc) ELSE [kind |-> "return", value |-> parsed.value]

Parsed(parsed) ==
    /\ continuous_fan' = parsed.continuous_fan
    /\ result' = ParseOutcome(parsed)

\* self._parse_data(call.raw)
Parse ==
    /\ call.name = "payload"
    /\ Parsed(_parse_data(call.raw, continuous_fan))
    /\ call' = [name |-> "_parse_data", raw |-> call.raw]
    /\ UNCHANGED <<enable_zone_control, last_data, data, api_healthy, trace>>

ParseNext == Parse

ParseSpec == ParseInit /\ [][ParseNext]_vars

\* The host's scheduler calls the refresh again and again, and every caller
\* gets its result.
ScheduledSpec == Spec /\ SF_vars(Refresh) /\ WF_vars(Return)

----------------------------------------------------------------------------
(* A calling sequence: set_zone_state, and set_zone_state again as soon as  *)
(* the first has returned, with no other operation in between               *)

\* what the second call keeps of the first: its arguments, the flags it sent,
\* whether its refresh parsed a fetched status, and the flags held after it
FirstCall ==
    [ zone_id |-> call.zone_id,
      enable  |-> call.enable,
      zones   |-> trace[2].command.params.zones,
      fetched |-> \E j \in 1..Len(trace) : trace[j].e = "_parse_data" /\ ~trace[j].raised,
      held    |-> last_data.main.EnabledZones ]

\* the second call ran and left the outcome o; what the first call was and
\* did is kept in call.after
RanAfter(c, o) ==
    /\ last_data' = o.last_data
    /\ continuous_fan' = o.continuous_fan
    /\ data' = o.data
    /\ call' = c
    /\ result' = o.result
    /\ trace' = o.trace
    /\ UNCHANGED <<api_healthy, enable_zone_control>>

SetZoneStateAgain ==
    /\ call # Idle
    /\ call.name = "set_zone_state"
    /\ "after" \notin DOMAIN call
    /\ result.kind = "return"
    /\ \E zone_id \in ZoneStateArgs, enable \in BOOLEAN,
          sent \in SendOutcomes, status \in StatusOutcomes :
          RanAfter([name |-> "set_zone_state", zone_id |-> zone_id, enable |-> enable,
                    after |-> FirstCall],
                   set_zone_state(State, zone_id, enable, sent, status))

SequenceNext ==
    \/ Return
    \/ ApiHealthChanges
    \/ Refresh
    \/ SetZoneState
    \/ SetZoneStateAgain

SequenceSpec == Init /\ [][SequenceNext]_vars

----------------------------------------------------------------------------
(* Properties *)

\* the calls named what that the operation made, by position in trace tr
Events(tr, what) == { i \in 1..Len(tr) : tr[i].e = what }

\* _async_update_data was called directly by the host's scheduler
IsRefresh(c) == c.name = "_async_update_data"

\* the operation refreshed: by itself, or through async_request_refresh
Refreshes(c, tr) == IsRefresh(c) \/ Events(tr, "async_request_refresh") # {}

\* get_ac_status was called and ended as r
StatusEnded(tr, r) == \E i \in Events(tr, "get_ac_status") : tr[i].r = r

\* _parse_data was called and raised
ParseRaised(tr) == \E i \in Events(tr, "_parse_data") : tr[i].raised

\* Every refresh stores the state it returns: the base class's data is the
\* coordinator's last_data whenever there is one.
DataIsLastData == Truthy(last_data) => data = last_data

\* C1: a refresh run while the API client is unhealthy calls get_ac_status
\* zero times, leaves last_data unchanged, and returns the previous last_data,
\* or the empty state when there is none; it does not raise.  A refresh a
\* command or set_enable_zone_control requests calls get_ac_status zero times
\* and leaves last_data unchanged as well.
C1_UnhealthyRefreshServesCache ==
    [][ (call = Idle /\ Refreshes(call', trace') /\ ~api_healthy) =>
          /\ Events(trace', "get_ac_status") = {}
          /\ last_data' = last_data
          /\ IsRefresh(call') =>
                /\ result'.kind = "return"
                /\ result'.value = (IF Truthy(last_data) THEN last_data ELSE EmptyDict)
      ]_vars

\* an unhealthy refresh has returned the cached state
C1_Witness ==
    /\ IsRefresh(call)
    /\ ~api_healthy
    /\ Truthy(last_data)
    /\ result.kind = "return"
    /\ result.value = last_data

\* C2: when get_ac_status raises AuthenticationError, _async_update_data
\* raises ConfigEntryAuthFailed, whether or not last_data exists, and leaves
\* last_data unchanged.
C2_AuthenticationFailurePropagates ==
    [][ (call = Idle /\ IsRefresh(call') /\ StatusEnded(trace', "AuthenticationError")) =>
          /\ result'.kind = "raise"
          /\ result'.exc = "ConfigEntryAuthFailed"
          /\ last_data' = last_data
      ]_vars

\* ConfigEntryAuthFailed was raised although a cached state exists
C2_Witness ==
    /\ IsRefresh(call)
    /\ StatusEnded(trace, "AuthenticationError")
    /\ Truthy(last_data)
    /\ result.kind = "raise"

\* C3: when the API client is healthy and get_ac_status raises ApiError or
\* another exception, _async_update_data returns last_data if it exists and
\* raises UpdateFailed if it does not; last_data is not modified.
C3_ApiFailureDegrades ==
    [][ (/\ call = Idle
         /\ IsRefresh(call')
         /\ StatusEnded(trace', "ApiError") \/ StatusEnded(trace', "Exception")) =>
          /\ api_healthy
          /\ last_data' = last_data
          /\ IF Truthy(last_data)
             THEN result'.kind = "return" /\ result'.value = last_data
             ELSE result'.kind = "raise" /\ result'.exc = "UpdateFailed"
      ]_vars

\* an ApiError was masked by the cached state
C3_Witness ==
    /\ IsRefresh(call)
    /\ StatusEnded(trace, "ApiError")
    /\ Truthy(last_data)
    /\ result.kind = "return"
    /\ result.value = last_data

\* C4: a failure of _parse_data during a refresh is raised to the caller of
\* the refresh, never masked by the cached last_data.
C4_MalformedPayloadPropagates ==
    (IsRefresh(call) /\ ParseRaised(trace)) => result.kind = "raise"

\* C5: set_zone_temperature raises ValueError, calls nothing on the API client
\* and requests no refresh when zone control is disabled, when there is no
\* last_data, when the zone is not in last_data's zones, or when the zone is
\* not enabled; the coordinator's state stays as it was.
C5_ZoneTemperatureValidation ==
    [][ (/\ call = Idle
         /\ call'.name = "set_zone_temperature"
         /\ \/ ~enable_zone_control
            \/ ~Truthy(last_data)
            \/ call'.zone_id \notin DOMAIN last_data.zones
            \/ ~last_data.zones[call'.zone_id].is_enabled) =>
          /\ result'.kind = "raise"
          /\ result'.exc = "ValueError"
          /\ trace' = << >>
          /\ UNCHANGED <<enable_zone_control, last_data, continuous_fan, data>>
      ]_vars

\* set_zone_temperature has refused a zone that exists and is not enabled
C5_Witness ==
    /\ call.name = "set_zone_temperature"
    /\ enable_zone_control
    /\ Truthy(last_data)
    /\ call.zone_id \in DOMAIN last_data.zones
    /\ ~last_data.zones[call.zone_id].is_enabled
    /\ result.kind = "raise"
    /\ trace = << >>

\* the zone identifier a set_zone_state argument stands for
TargetZone(zone_id) == IF "str" \in DOMAIN zone_id THEN zone_id.str ELSE ZoneId(zone_id.int)

\* the argument is a string from which no index can be read
Unreadable(zone_id) == "str" \in DOMAIN zone_id /\ zone_index_error(zone_id.str) # ""

\* the 0-based index a readable set_zone_state argument resolves to
ResolvedIndex(zone_id) ==
    IF "str" \in DOMAIN zone_id THEN zone_index_of(zone_id.str) ELSE zone_id.int

\* C6 as claimed: set_zone_state raises and never calls send_command when zone
\* control is disabled, or when the target zone is not in last_data's zones or
\* is not enabled.
C6_ZoneStateRequiresEnabledZone ==
    [][ (/\ call = Idle
         /\ call'.name = "set_zone_state"
         /\ \/ ~enable_zone_control
            \/ ~Truthy(last_data)
            \/ TargetZone(call'.zone_id) \notin DOMAIN last_data.zones
            \/ ~last_data.zones[TargetZone(call'.zone_id)].is_enabled) =>
          /\ result'.kind = "raise"
          /\ Events(trace', "send_command") = {}
      ]_vars

\* C6 as amended: set_zone_state raises without calling the API client, and
\* leaves the coordinator's state as it was, exactly when no index can be read
\* from the identifier, there is no last_data, or the index is outside
\* 0 <= index < len(EnabledZones); otherwise it calls send_command, whatever
\* enable_zone_control is and whether or not the zone exists or is enabled.
C6_ZoneStateChecksIndexOnly ==
    [][ (call = Idle /\ call'.name = "set_zone_state") =>
          IF \/ Unreadable(call'.zone_id)
             \/ ~Truthy(last_data)
             \/ ResolvedIndex(call'.zone_id) < 0
             \/ ResolvedIndex(call'.zone_id) >= Len(last_data.main.EnabledZones)
          THEN /\ result'.kind = "raise"
               /\ trace' = << >>
               /\ UNCHANGED <<enable_zone_control, last_data, continuous_fan, data>>
          ELSE Events(trace', "send_command") # {}
      ]_vars

\* set_zone_state has refused the index len(EnabledZones)
C6_Witness ==
    /\ call.name = "set_zone_state"
    /\ Truthy(last_data)
    /\ "int" \in DOMAIN call.zone_id
    /\ call.zone_id.int = Len(last_data.main.EnabledZones)
    /\ result.kind = "raise"
    /\ result.exc = "ValueError"
    /\ trace = << >>

CommandNames ==
    { "set_hvac_mode", "set_temperature", "set_fan_mode", "set_zone_temperature",
      "set_zone_state", "set_climate_mode", "set_away_mode", "set_quiet_mode" }

\* the API client calls that send a command to the device
SendEvents == {"send_command", "set_fan_mode", "set_away_mode", "set_quiet_mode"}

\* the sends of the operation that succeeded / that raised, by position
SendsOk(tr) == { i \in 1..Len(tr) : tr[i].e \in SendEvents /\ tr[i].r = "ok" }
SendsFailed(tr) == { i \in 1..Len(tr) : tr[i].e \in SendEvents /\ tr[i].r # "ok" }

\* C7: a command method whose send succeeds requests exactly one refresh,
\* after the send and before it returns; no command requests a refresh
\* without a successful send before it.
C7_OneRefreshAfterSend ==
    call.name \in CommandNames =>
        /\ SendsOk(trace) # {} =>
              /\ Cardinality(Events(trace, "async_request_refresh")) = 1
              /\ result.kind = "return"
        /\ \A j \in Events(trace, "async_request_refresh") :
              /\ SendsOk(trace) # {}
              /\ \A i \in SendsOk(trace) : i < j

\* a command has sent and then refreshed
C7_Witness ==
    /\ call.name = "set_climate_mode"
    /\ SendsOk(trace) # {}
    /\ Events(trace, "async_request_refresh") # {}
    /\ result.kind = "return"

\* C8: when the send of a command method raises, the command raises the same
\* exception, requests no refresh, and leaves last_data and the locally
\* tracked continuous-fan flag as they were.
C8_FailedSendChangesNothing ==
    [][ (call = Idle /\ call'.name \in CommandNames /\ SendsFailed(trace') # {}) =>
          /\ result'.kind = "raise"
          /\ \A i \in SendsFailed(trace') : result'.exc = trace'[i].r
          /\ Events(trace', "async_request_refresh") = {}
          /\ Events(trace', "get_ac_status") = {}
          /\ last_data' = last_data
          /\ continuous_fan' = continuous_fan
      ]_vars

\* a set_fan_mode asking for continuous mode failed at the send, and the
\* locally tracked flag is still off
C8_Witness ==
    /\ call.name = "set_fan_mode"
    /\ call.continuous = <<TRUE>>
    /\ SendsFailed(trace) # {}
    /\ result.kind = "raise"
    /\ ~continuous_fan

\* the state held is the one parsed from a status fetched after the send
FetchedAfterSend ==
    \E i \in SendsOk(trace), j \in Events(trace, "get_ac_status") :
        /\ i < j
        /\ trace[j].r = "ok"
        /\ Truthy(data)
        /\ data = last_data
        /\ data.raw_data = trace[j].payload

\* the operation's refresh fetched a status and parsed it
ParsedFresh(tr) == \E j \in Events(tr, "_parse_data") : ~tr[j].raised

\* C9 as claimed: when a command method returns, the state the coordinator
\* holds was parsed from a status fetched after the command's send.
C9_ReadYourWrites ==
    (call.name \in CommandNames /\ result.kind = "return") => FetchedAfterSend

\* C9 as amended: when a command method returns and its refresh fetched and
\* parsed a status, that status was fetched after the command's send and the
\* state the coordinator holds (data and last_data) is the one parsed from it.
C9_ReadYourWritesWhenFetched ==
    (call.name \in CommandNames /\ result.kind = "return" /\ ParsedFresh(trace))
        => FetchedAfterSend

\* set_temperature has returned after a refresh that fetched a fresh status
C9_Witness ==
    /\ call.name = "set_temperature"
    /\ result.kind = "return"
    /\ ParsedFresh(trace)
    /\ FetchedAfterSend

\* the base mode set_fan_mode validates: the upper-cased mode, or LOW
ValidatedMode(mode) ==
    IF Upper(mode) \in {Str_LOW, Str_MED, Str_HIGH, Str_AUTO} THEN Upper(mode) ELSE Str_LOW

\* the continuous flag set_fan_mode is to send: the one given, or whether the
\* fan mode of the state last observed ends with "+CONT"
ExpectedContinuous(continuous, observed) ==
    IF continuous = << >> THEN EndsWith(observed.main.fan_mode, Str_CONT) ELSE continuous[1]

FetchedAndParsed(tr, p) ==
    /\ \E j \in Events(tr, "get_ac_status") : tr[j].r = "ok" /\ tr[j].payload = p
    /\ ParsedFresh(tr)

\* C11: last_data changes only in a step whose refresh fetched a payload and
\* parsed it, and then it is the whole state parsed from that payload; no
\* command, accessor, property setter or set_enable_zone_control changes it or
\* a field of it otherwise.
C11_LastDataOnlyReplacedByRefresh ==
    [][ last_data' # last_data =>
          /\ Refreshes(call', trace')
          /\ Truthy(last_data')
          /\ FetchedAndParsed(trace', last_data'.raw_data)
          /\ last_data'.main = pd_main(last_data'.raw_data)
          /\ last_data'.zones = pd_zones(last_data'.raw_data)
      ]_vars

\* set_zone_state has sent a list of flags that differs from the cached
\* EnabledZones, its refresh was served from the cache, and the cached list
\* is as it was
C11_Witness ==
    /\ call.name = "set_zone_state"
    /\ SendsOk(trace) # {}
    /\ ~ParsedFresh(trace)
    /\ Truthy(last_data)
    /\ \E i \in Events(trace, "send_command") :
          trace[i].command.params.zones # last_data.main.EnabledZones

\* C12: get_zone_peripheral and get_zone_last_updated return (a peripheral, a
\* time or None) and never raise, in every state and for every zone_id.
C12_AccessorsNeverFail ==
    call.name \in {"get_zone_peripheral", "get_zone_last_updated"} => result.kind = "return"

\* _parse_data has run on the payload call.raw
HasParsed == call.name = "_parse_data"

\* the sections of the payload under lastKnownState
Sections(raw) == GetD(raw.json, "lastKnownState", NoSection)

\* C13: for a payload in which any subset of the optional sections is missing
\* (or lastKnownState itself), _parse_data returns a state with all fields
\* of main, and the fields that come from a missing section hold their
\* defaults; it does not raise.
C13_MissingSectionsDefault ==
    (HasParsed /\ call.raw.nulls = {} /\ call.raw \in MissingSections \cup Partial) =>
        /\ result.kind = "return"
        /\ result.value.raw_data = call.raw
        /\ DOMAIN result.value.main =
              { "is_on", "mode", "fan_mode", "fan_continuous", "base_fan_mode",
                "temp_setpoint_cool", "temp_setpoint_heat", "indoor_temp",
                "indoor_humidity", "compressor_state", "EnabledZones", "away_mode",
                "quiet_mode", "model", "serial_number", "firmware_version",
                "filter_clean_required", "defrosting" }
        /\ "UserAirconSettings" \notin DOMAIN Sections(call.raw) =>
              /\ result.value.main.is_on = FALSE
              /\ result.value.main.mode = "OFF"
              /\ result.value.main.fan_mode = << >>
              /\ result.value.main.fan_continuous = FALSE
              /\ result.value.main.base_fan_mode = << >>
              /\ result.value.main.temp_setpoint_cool = << >>
              /\ result.value.main.temp_setpoint_heat = << >>
              /\ result.value.main.EnabledZones = << >>
              /\ result.value.main.away_mode = FALSE
              /\ result.value.main.quiet_mode = FALSE
        /\ "MasterInfo" \notin DOMAIN Sections(call.raw) =>
              /\ result.value.main.indoor_temp = << >>
              /\ result.value.main.indoor_humidity = << >>
        /\ "LiveAircon" \notin DOMAIN Sections(call.raw) =>
              result.value.main.compressor_state = "OFF"
        /\ "AirconSystem" \notin DOMAIN Sections(call.raw) =>
              /\ result.value.main.model = << >>
              /\ result.value.main.serial_number = << >>
              /\ result.value.main.firmware_version = << >>
        /\ "Alerts" \notin DOMAIN Sections(call.raw) =>
              /\ result.value.main.filter_clean_required = FALSE
              /\ result.value.main.defrosting = FALSE
        /\ "RemoteZoneInfo" \notin DOMAIN Sections(call.raw) =>
              DOMAIN result.value.zones = {}

\* a payload with no section at all under lastKnownState was parsed into the
\* all-default state
C13_Witness ==
    /\ HasParsed
    /\ "lastKnownState" \in DOMAIN call.raw.json
    /\ DOMAIN Sections(call.raw) = {}
    /\ result.kind = "return"
    /\ result.value.main.mode = "OFF"
    /\ DOMAIN result.value.zones = {}

\* the other form of a set_zone_state argument: the index k-1 for "zone_k",
\* "zone_k" for the index k-1
OtherForm(zone_id) ==
    IF "str" \in DOMAIN zone_id THEN [int |-> zone_index_of(zone_id.str)]
    ELSE [str |-> ZoneId(zone_id.int)]

\* the step just taken ended as o does
StepEndedAs(o) ==
    /\ result' = o.result
    /\ trace' = o.trace
    /\ last_data' = o.last_data
    /\ continuous_fan' = o.continuous_fan
    /\ data' = o.data

\* C14: whatever set_zone_state does when given "zone_k", it does when given
\* the index k-1 in the same state with the API answering alike, and the other
\* way round: the same exception without a send when the index is outside
\* 0 <= index < len(EnabledZones), the same SET_ZONE_STATE command otherwise.
C14_ZoneStateFormsAgree ==
    [][ (/\ call = Idle
         /\ call'.name = "set_zone_state"
         /\ ~Unreadable(call'.zone_id)) =>
          /\ \E sent \in SendOutcomes, status \in StatusOutcomes :
                StepEndedAs(set_zone_state(State, OtherForm(call'.zone_id), call'.enable,
                                           sent, status))
          /\ (Truthy(last_data) /\ Events(trace', "send_command") = {}) =>
                result'.kind = "raise" /\ result'.exc = "ValueError"
      ]_vars

\* set_zone_state("zone_1") has sent a command
C14_Witness ==
    /\ call.name = "set_zone_state"
    /\ call.zone_id = [str |-> ZoneId(0)]
    /\ SendsOk(trace) # {}

RawFanMode(raw) ==
    GetD(GetD(GetD(raw.json, "lastKnownState", NoSection), "UserAirconSettings", NoSection),
         "FanMode", << >>)

\* the parser fails before it has read the fan mode: a null among the
\* sections or the fan mode itself
FailsBeforeFanMode(raw) ==
    raw.nulls \cap {"lastKnownState", "UserAirconSettings", "MasterInfo", "LiveAircon",
                    "AirconSystem", "Alerts", "FanMode"} # {}

CutAtFirst(s, seps) ==
    IF \A i \in 1..Len(s) : s[i] \notin seps THEN s
    ELSE SubSeq(s, 1, (CHOOSE i \in 1..Len(s) :
                          s[i] \in seps /\ \A j \in 1..(i - 1) : s[j] \notin seps) - 1)

\* the state _parse_data returned
ParsedState == HasParsed /\ result.kind = "return"

\* C16 as claimed: base_fan_mode is the fan mode cut at its first '+' when it
\* has one, cut at its first '-' when it has no '+' but a '-', and the fan
\* mode itself otherwise.
C16_BaseFanModePlusFirst ==
    ParsedState =>
        result.value.main.base_fan_mode =
            IF Contains(RawFanMode(call.raw), "+") THEN CutAtFirst(RawFanMode(call.raw), {"+"})
            ELSE CutAtFirst(RawFanMode(call.raw), {"-"})

\* C16 as amended: base_fan_mode is the fan mode cut at its first '+' or '-',
\* whichever comes first, and the fan mode itself when it has neither.
C16_BaseFanModeCutAtFirstSeparator ==
    ParsedState =>
        result.value.main.base_fan_mode = CutAtFirst(RawFanMode(call.raw), {"+", "-"})

\* a fan mode with a '-' before its '+' was cut at the '-'
C16_Witness ==
    /\ ParsedState
    /\ RawFanMode(call.raw) = <<"L", "-", "+">>
    /\ result.value.main.base_fan_mode = <<"L">>

\* the vendor's per-zone array and enabled flags, as the payload holds them
RawZones(raw) == GetD(Sections(raw), "RemoteZoneInfo", << >>)
RawEnabled(raw) ==
    GetD(GetD(Sections(raw), "UserAirconSettings", NoSection), "EnabledZones", << >>)

\* C17: every key of zones in a state _parse_data returns is "zone_<i+1>" for
\* an index i with 0 <= i < MAX_ZONES at which the payload's RemoteZoneInfo
\* has an entry marked NV_Exists.
C17_ZoneKeysExistBelowMax ==
    ParsedState =>
        \A zid \in DOMAIN result.value.zones :
            \E i \in 0..(MAX_ZONES - 1) :
                /\ zid = ZoneId(i)
                /\ i < Len(RawZones(call.raw))
                /\ "NV_Exists" \in DOMAIN RawZones(call.raw)[i + 1]
                /\ RawZones(call.raw)[i + 1].NV_Exists

\* a payload with MAX_ZONES + 1 existing zones was parsed into MAX_ZONES zones
C17_Witness ==
    /\ ParsedState
    /\ Len(RawZones(call.raw)) = MAX_ZONES + 1
    /\ \A n \in 1..(MAX_ZONES + 1) : GetD(RawZones(call.raw)[n], "NV_Exists", FALSE)
    /\ Cardinality(DOMAIN result.value.zones) = MAX_ZONES

\* C18: a zone included at index i has is_enabled = EnabledZones[i] when
\* i < len(EnabledZones) and False otherwise, and a payload whose EnabledZones
\* is shorter than its RemoteZoneInfo is parsed without failure.
C18_IsEnabledWithinBounds ==
    /\ ParsedState =>
          \A i \in 0..(Len(RawZones(call.raw)) - 1) :
              ZoneId(i) \in DOMAIN result.value.zones =>
                  result.value.zones[ZoneId(i)].is_enabled =
                      IF i < Len(RawEnabled(call.raw)) THEN RawEnabled(call.raw)[i + 1]
                      ELSE FALSE
    /\ (HasParsed /\ call.raw \in ZoneLayouts) => result.kind = "return"

\* a zone beyond the end of EnabledZones was parsed as not enabled
C18_Witness ==
    /\ ParsedState
    /\ \E i \in 0..(Len(RawZones(call.raw)) - 1) :
          /\ i >= Len(RawEnabled(call.raw))
          /\ ZoneId(i) \in DOMAIN result.value.zones
          /\ ~result.value.zones[ZoneId(i)].is_enabled

\* C19: once last_data exists it stays, and from then on the only exception
\* _async_update_data raises is ConfigEntryAuthFailed; it raises UpdateFailed
\* only while there is no last_data.
C19_NoUpdateFailedOnceCached ==
    [][ Truthy(last_data) =>
          /\ Truthy(last_data')
          /\ (IsRefresh(call') /\ result'.kind = "raise") =>
                /\ result'.exc = "ConfigEntryAuthFailed"
                /\ StatusEnded(trace', "AuthenticationError")
      ]_vars

\* with a cached state, a refresh whose payload could not be parsed returned
C19_Witness ==
    /\ IsRefresh(call)
    /\ Truthy(last_data)
    /\ ParseRaised(trace)
    /\ result.kind = "return"
    /\ result.value = last_data

\* C20: a refresh that stores no fresh state (API unhealthy, get_ac_status or
\* _parse_data failing) leaves last_data, the continuous-fan flag and
\* enable_zone_control as they were.
C20_UnstoredRefreshChangesNothing ==
    [][ (call = Idle /\ IsRefresh(call') /\ ~ParsedFresh(trace')) =>
          UNCHANGED <<last_data, continuous_fan, enable_zone_control>>
      ]_vars

\* the flags a set_zone_state call sent, by the API calls tr it made
SentZones(tr) == tr[CHOOSE k \in Events(tr, "send_command") : TRUE].command.params.zones

\* two set_zone_state calls in a row, on different zones, have both returned
TwoZoneUpdates ==
    /\ call.name = "set_zone_state"
    /\ "after" \in DOMAIN call
    /\ result.kind = "return"
    /\ ResolvedIndex(call.after.zone_id) # ResolvedIndex(call.zone_id)

\* C21: when set_zone_state(i, a) and then set_zone_state(j, b), i # j, have
\* both returned, and the refresh between them was served from the cache or
\* fetched the flags the first call sent (no other writer), the flags the
\* second call sent hold a at index i and b at index j.
C21_NoLostZoneUpdate ==
    (TwoZoneUpdates /\ (call.after.fetched => call.after.held = call.after.zones)) =>
        /\ SentZones(trace)[ResolvedIndex(call.after.zone_id) + 1] = call.after.enable
        /\ SentZones(trace)[ResolvedIndex(call.zone_id) + 1] = call.enable

\* the normalizer attached a peripheral to the zone zid of the held state
HasPeripheral(zid) ==
    /\ Truthy(data)
    /\ zid \in DOMAIN data.zones
    /\ "last_connection" \in DOMAIN data.zones[zid]

\* the first peripheral of the payload's lastKnownState.AirconSystem whose
\* ZoneAssignment is [index + 1], for the zone zid
AttachedPeripheral(zid) ==
    pd_peripherals(data.raw_data)[pd_first_match(data.raw_data, zone_index_of(zid))]

\* C22: for a zone to which the normalizer attached a peripheral,
\* get_zone_peripheral returns that peripheral and get_zone_last_updated
\* returns the zone's last_connection.
C22_AccessorsAgreeWithState ==
    /\ (call.name = "get_zone_peripheral" /\ HasPeripheral(call.zone_id)) =>
          /\ result.kind = "return"
          /\ result.value = AttachedPeripheral(call.zone_id)
    /\ (call.name = "get_zone_last_updated" /\ HasPeripheral(call.zone_id)) =>
          /\ result.kind = "return"
          /\ result.value = data.zones[call.zone_id].last_connection

\* every get_ac_status call of the operation returned a well-formed payload
FetchesSucceed ==
    \A j \in Events(trace, "get_ac_status") :
        trace[j].r = "ok" /\ trace[j].payload \in WellFormed

\* a refresh has just stored and returned the state parsed from the payload
\* it fetched
StoredFresh ==
    /\ IsRefresh(call)
    /\ Truthy(last_data)
    /\ FetchedAndParsed(trace, last_data.raw_data)
    /\ last_data.main = pd_main(last_data.raw_data)
    /\ result.kind = "return"
    /\ result.value = last_data

\* C23: an operation calls get_ac_status at most once; and when the refresh
\* is called again and again, if from some point on the API client stays
\* healthy and get_ac_status returns well-formed payloads, then again and
\* again a refresh stores the state parsed from the payload it has just fetched.
C23_RecoversThroughSchedule ==
    /\ [](Cardinality(Events(trace, "get_ac_status")) <= 1)
    /\ (<>[]api_healthy /\ <>[]FetchesSucceed) => []<>StoredFresh

\* while the API client is healthy, a refresh has fetched a payload with fan
\* mode HIGH and stored the state parsed from it
C23_Witness ==
    /\ StoredFresh
    /\ api_healthy
    /\ data = last_data
    /\ last_data.main.fan_mode = Str_HIGH

====
